---------------------------- MODULE Spec2Model ----------------------------
(***************************************************************************)
(* Model of backend/main.py: the dataset cache (DATA_CACHE) filled by      *)
(* on_startup and by the refresh_data_cache thread, the record lookup      *)
(* get_student, and the asset proxy image_proxy with its IMAGE_CACHE.      *)
(*                                                                         *)
(* A Python str is a sequence of one-character strings.  None and NaN are  *)
(* one-element sequences whose element is not a single character, so they  *)
(* are different from every str.                                           *)
(***************************************************************************)
EXTENDS Integers, Sequences, FiniteSets, TLC

None == <<"None">>
NaN == <<"NaN">>

Range(s) == {s[i] : i \in 1..Len(s)}

(***************************************************************************)
(* str methods used by the program                                         *)
(***************************************************************************)
Whitespace == {" ", "\t", "\n", "\r"}

RECURSIVE LStrip(_)
LStrip(s) == IF s # <<>> /\ Head(s) \in Whitespace THEN LStrip(Tail(s)) ELSE s

RECURSIVE RStrip(_)
RStrip(s) ==
    IF s # <<>> /\ s[Len(s)] \in Whitespace
    THEN RStrip(SubSeq(s, 1, Len(s) - 1))
    ELSE s

\* str.strip()
Strip(s) == RStrip(LStrip(s))

IsSpace(c) == c = " "

IsNotSpace(c) == ~IsSpace(c)

\* str.replace(" ", "")
RemoveSpaces(s) == SelectSeq(s, IsNotSpace)

\* str.split("/")[0]
SplitFirst(s) ==
    IF \E i \in 1..Len(s) : s[i] = "/"
    THEN LET i == CHOOSE j \in 1..Len(s) : s[j] = "/" /\ \A k \in 1..(j - 1) : s[k] # "/"
         IN  SubSeq(s, 1, i - 1)
    ELSE s

LowerLetters == <<"a","b","c","d","e","f","g","h","i","j","k","l","m","n","o","p","q","r","s","t","u","v","w","x","y","z">>
UpperLetters == <<"A","B","C","D","E","F","G","H","I","J","K","L","M","N","O","P","Q","R","S","T","U","V","W","X","Y","Z">>
OtherTokenChars == {"0","1","2","3","4","5","6","7","8","9","_","-"}

LowerChar(c) ==
    IF c \in Range(UpperLetters)
    THEN LowerLetters[CHOOSE i \in 1..Len(UpperLetters) : UpperLetters[i] = c]
    ELSE c

Lower(s) == [i \in 1..Len(s) |-> LowerChar(s[i])]

\* t occurs in s as a substring
Contains(s, t) ==
    \E i \in 0..(Len(s) - Len(t)) : SubSeq(s, i + 1, i + Len(t)) = t

\* ContainsNoCase with the empty pattern matching nothing
ContainsNoCase_NonEmpty(s, t) == t # <<>> /\ Contains(Lower(s), Lower(t))

\* Series.str.contains(re.escape(t), case=False) on one value
ContainsNoCase(s, t) == Contains(Lower(s), Lower(t))

(***************************************************************************)
(* extract_file_id and build_image_url                                     *)
(***************************************************************************)
\* the character class [a-zA-Z0-9_-]
TokenChars == Range(LowerLetters) \cup Range(UpperLetters) \cup OtherTokenChars

\* the regular expression  lit([a-zA-Z0-9_-]+)  matches at position i of url
MatchAt(url, lit, i) ==
    /\ i + Len(lit) <= Len(url)
    /\ SubSeq(url, i, i + Len(lit) - 1) = lit
    /\ url[i + Len(lit)] \in TokenChars

\* the end of the longest run of token characters starting at position j
RunEnd(url, j) ==
    CHOOSE k \in j..Len(url) :
        /\ \A m \in j..k : url[m] \in TokenChars
        /\ k = Len(url) \/ url[k + 1] \notin TokenChars

\* re.search(lit + "([a-zA-Z0-9_-]+)", url): group 1 of the leftmost match, or None
Search(lit, url) ==
    IF \E i \in 1..Len(url) : MatchAt(url, lit, i)
    THEN LET i == CHOOSE j \in 1..Len(url) :
                       MatchAt(url, lit, j) /\ \A k \in 1..(j - 1) : ~MatchAt(url, lit, k)
             b == i + Len(lit)
         IN  SubSeq(url, b, RunEnd(url, b))
    ELSE None

extract_file_id(url) ==
    IF url = None \/ url = NaN \/ url = <<>>
    THEN None
    ELSE IF Search(<<"/","d","/">>, url) # None
         THEN Search(<<"/","d","/">>, url)
         ELSE Search(<<"i","d","=">>, url)

ProxyBase == <<"h","t","t","p","s",":","/","/","s","t","u","d","e","n","t","-","i","m","a","g","e","-","f","i","n","d","e","r",".","o","n","r","e","n","d","e","r",".","c","o","m","/","i","m","a","g","e","-","p","r","o","x","y","/">>

build_image_url(url) ==
    LET file_id == extract_file_id(url)
    IN  IF file_id # None THEN ProxyBase \o file_id ELSE None

(***************************************************************************)
(* load_data: the sheet as fetched is a header and rows of cell texts      *)
(***************************************************************************)
ScholarID == <<"S","c","h","o","l","a","r"," ","I","D">>

image_fields == {
    <<"S","t","u","d","e","n","t","'","s"," ","P","h","o","t","o","g","r","a","p","h">>,
    <<"F","a","t","h","e","r","'","s"," ","P","h","o","t","o","g","r","a","p","h">>,
    <<"M","o","t","h","e","r","'","s"," ","P","h","o","t","o","g","r","a","p","h">>,
    <<"G","u","a","r","d","i","a","n","'","s"," ","P","h","o","t","o">>,
    <<"G","r","a","n","d","f","a","t","h","e","r","'","s"," ","P","h","o","t","o","g","r","a","p","h">>,
    <<"G","r","a","n","d","m","o","t","h","e","r","'","s"," ","P","h","o","t","o","g","r","a","p","h">>,
    <<"S","i","b","l","i","n","g","-","1"," ","P","h","o","t","o","g","r","a","p","h"," ","(","R","e","a","l"," ","b","r","o","t","h","e","r","/","s","i","s","t","e","r",")">>,
    <<"S","i","b","l","i","n","g","-","2"," ","P","h","o","t","o","g","r","a","p","h"," ","(","R","e","a","l"," ","b","r","o","t","h","e","r","/","s","i","s","t","e","r",")">> }

\* cell texts pandas.read_csv reads as a missing value (a part of its default list)
NaTexts == { <<>>, <<"N","A">>, <<"N","a","N">>, <<"n","a","n">>, <<"n","u","l","l">>,
             <<"N","U","L","L">>, <<"N","/","A">>, <<"n","/","a">> }

\* pd.read_csv(SHEET_URL, dtype=str) on one cell
read_cell(text) == IF text \in NaTexts THEN NaN ELSE text

\* DataFrame.fillna("") on one cell
fillna(v) == IF v = NaN THEN <<>> ELSE v

\* a DataFrame: column names and rows of values aligned with them
load_data(sheet) ==
    LET columns == [i \in 1..Len(sheet.header) |-> Strip(sheet.header[i])]
        cell(r, i) ==
            LET v == fillna(read_cell(sheet.rows[r][i]))
            IN  IF columns[i] \in image_fields THEN build_image_url(v) ELSE v
    IN  [columns |-> columns,
         rows |-> [r \in 1..Len(sheet.rows) |->
                      [i \in 1..Len(columns) |-> cell(r, i)]]]

(***************************************************************************)
(* Bounds, inputs and the program's constants                              *)
(***************************************************************************)
\* time.sleep(600) in refresh_data_cache
REFRESH_SLEEP == 600

\* the clock stops after MaxSleeps refresh intervals
MaxSleeps == 1

MaxTime == MaxSleeps * REFRESH_SLEEP

\* the clock advances by a refresh interval at a time
TickSteps == {REFRESH_SLEEP}

HeaderFull == << <<" ","S","c","h","o","l","a","r"," ","I","D">>,
                 <<"N","a","m","e">>,
                 <<"S","t","u","d","e","n","t","'","s"," ","P","h","o","t","o","g","r","a","p","h">> >>

SheetA == [header |-> HeaderFull,
           rows |-> << << <<"4","5"," ","/","2","2">>, <<"x">>, <<"u","/","d","/","A","B","/","v">> >>,
                       << <<"9">>, <<>>, <<"p","i","c">> >> >>]

SheetB == [header |-> HeaderFull,
           rows |-> << << <<"4","5","/","2","3">>, <<"y">>, <<"u","?","i","d","=","C","D">> >>,
                       << <<"4","5"," ","/","2","2">>, <<"N","A">>, <<>> >> >>]

SheetNoId == [header |-> << <<"N","a","m","e">> >>,
              rows |-> << << <<"x">> >> >>]

\* what the sheet's CSV export can hold when it is fetched
Sheets == {SheetA, SheetB, SheetNoId}

\* the scholar_id of a request
Queries == { <<"4","5","/","2","2">>, <<" ","9">> }

\* the threads of the host's pool that run get_student
Readers == {"r1", "r2"}

(***************************************************************************)
(* State                                                                   *)
(***************************************************************************)
VARIABLES
    DATA_CACHE,   \* [df, last_updated]: df is a reference into heap, 0 is None
    heap,         \* the DataFrame objects, by reference
    stamp,        \* history: the last_updated value recorded for each DataFrame
    boot,         \* "startup" until on_startup has run, then "serving"
    thread,       \* the refresh_data_cache thread: [pc, df, until]
    now,          \* the clock, in seconds
    reader,       \* per get_student call: [pc, scholar_id, df, data, result]
    IMAGE_CACHE,  \* the dict: file_id -> [data, content_type, timestamp]
    proxy         \* per image_proxy call: [pc, file_id, resp, fetches, result]

vars == <<DATA_CACHE, heap, stamp, boot, thread, now, reader, IMAGE_CACHE, proxy>>

\* time.strftime("%Y-%m-%d %H:%M:%S") at clock value t: the text names the second
strftime(t) == <<"ts", t>>

NoResult == [status |-> 0, detail |-> "", last_updated |-> None, data |-> <<>>]

HTTPException(code, text) ==
    [status |-> code, detail |-> text, last_updated |-> None, data |-> <<>>]

IdleReader == [pc |-> "idle", scholar_id |-> <<>>, df |-> 0, data |-> <<>>, result |-> NoResult]

\* what is left of a DataFrame no reference leads to
Freed == [columns |-> <<>>, rows |-> <<>>]

\* the DataFrames some reference leads to: the cache's, the refresh thread's
\* local df and the local df of the handlers that are running
Referenced(cache, th, rd) ==
    {cache.df, th.df} \cup {rd[r].df : r \in Readers}

\* reference counting: a DataFrame is reclaimed when its last reference goes
Reclaim(h, cache, th, rd) ==
    [k \in 1..Len(h) |-> IF k \in Referenced(cache, th, rd) THEN h[k] ELSE Freed]

ReclaimStamp(st, cache, th, rd) ==
    [k \in 1..Len(st) |-> IF k \in Referenced(cache, th, rd) THEN st[k] ELSE None]

(***************************************************************************)
(* on_startup and refresh_data_cache                                       *)
(***************************************************************************)
\* lines 102-104 with load_data returning: nothing else runs before the thread
\* is started and before the host serves requests
StartupLoaded(sheet) ==
    /\ heap' = Append(heap, load_data(sheet))
    /\ stamp' = Append(stamp, strftime(now))
    /\ DATA_CACHE' = [df |-> Len(heap) + 1, last_updated |-> strftime(now)]

\* lines 105-106: load_data raised
StartupFailed ==
    /\ heap' = heap
    /\ stamp' = stamp
    /\ DATA_CACHE' = DATA_CACHE

\* Startup with thread.start() moved before the load: the first call starts the
\* thread, the second is the load
Startup_ThreadFirst(sheets) ==
    /\ boot = "startup"
    /\ IF thread.pc = "off"
       THEN /\ thread' = [pc |-> "load", df |-> 0, until |-> 0]
            /\ UNCHANGED <<DATA_CACHE, heap, stamp, boot>>
       ELSE /\ \/ \E sheet \in sheets : StartupLoaded(sheet)
               \/ StartupFailed
            /\ boot' = "serving"
            /\ thread' = thread
    /\ UNCHANGED <<now, reader, IMAGE_CACHE, proxy>>

\* on_startup when the sheet holds one of sheets
Startup(sheets) ==
    /\ boot = "startup"
    /\ \/ \E sheet \in sheets : StartupLoaded(sheet)
       \/ StartupFailed
    /\ boot' = "serving"
    /\ thread' = [pc |-> "load", df |-> 0, until |-> 0]
    /\ UNCHANGED <<now, reader, IMAGE_CACHE, proxy>>

on_startup == Startup(Sheets)

\* line 91: load_data returns a new DataFrame, held by the thread alone
RefreshLoaded(sheet) ==
    /\ thread.pc = "load"
    /\ heap' = Append(heap, load_data(sheet))
    /\ stamp' = Append(stamp, None)
    /\ thread' = [thread EXCEPT !.pc = "l92", !.df = Len(heap) + 1]
    /\ UNCHANGED <<DATA_CACHE, boot, now, reader, IMAGE_CACHE, proxy>>

\* RefreshFailed with the cache emptied when load_data raises
RefreshFailed_Clears ==
    /\ thread.pc = "load"
    /\ DATA_CACHE' = [df |-> 0, last_updated |-> None]
    /\ thread' = [thread EXCEPT !.pc = "sleep", !.until = now + REFRESH_SLEEP]
    /\ UNCHANGED <<heap, stamp, boot, now, reader, IMAGE_CACHE, proxy>>

\* RefreshFailed with the exception leaving the loop: the thread ends
RefreshFailed_Stops ==
    /\ thread.pc = "load"
    /\ thread' = [thread EXCEPT !.pc = "dead"]
    /\ UNCHANGED <<DATA_CACHE, heap, stamp, boot, now, reader, IMAGE_CACHE, proxy>>

\* lines 84, 95-97: load_data raises, the loop reports it and sleeps
RefreshFailed ==
    /\ thread.pc = "load"
    /\ thread' = [thread EXCEPT !.pc = "sleep", !.until = now + REFRESH_SLEEP]
    /\ UNCHANGED <<DATA_CACHE, heap, stamp, boot, now, reader, IMAGE_CACHE, proxy>>

\* RefreshStoreDf copying the new rows into the published DataFrame, a row at
\* a time, instead of replacing the reference
RefreshStoreDf_InPlace ==
    /\ thread.pc = "l92"
    /\ IF DATA_CACHE.df = 0
       THEN /\ DATA_CACHE' = [DATA_CACHE EXCEPT !.df = thread.df]
            /\ heap' = heap
       ELSE /\ DATA_CACHE' = DATA_CACHE
            /\ heap' = [heap EXCEPT ![DATA_CACHE.df].rows[1] = heap[thread.df].rows[1]]
    /\ thread' = [thread EXCEPT !.pc = "l93"]
    /\ UNCHANGED <<stamp, boot, now, reader, IMAGE_CACHE, proxy>>

\* line 92
RefreshStoreDf ==
    /\ thread.pc = "l92"
    /\ DATA_CACHE' = [DATA_CACHE EXCEPT !.df = thread.df]
    /\ thread' = [thread EXCEPT !.pc = "l93"]
    /\ heap' = Reclaim(heap, DATA_CACHE', thread', reader)
    /\ stamp' = ReclaimStamp(stamp, DATA_CACHE', thread', reader)
    /\ UNCHANGED <<boot, now, reader, IMAGE_CACHE, proxy>>

\* lines 93-97
RefreshStoreTime ==
    /\ thread.pc = "l93"
    /\ DATA_CACHE' = [DATA_CACHE EXCEPT !.last_updated = strftime(now)]
    /\ stamp' = [stamp EXCEPT ![DATA_CACHE.df] = strftime(now)]
    /\ thread' = [thread EXCEPT !.pc = "sleep", !.until = now + REFRESH_SLEEP]
    /\ UNCHANGED <<heap, boot, now, reader, IMAGE_CACHE, proxy>>

\* RefreshWake emptying the cache before the next load
RefreshWake_Invalidates ==
    /\ thread.pc = "sleep"
    /\ now >= thread.until
    /\ thread' = [thread EXCEPT !.pc = "load"]
    /\ DATA_CACHE' = [df |-> 0, last_updated |-> None]
    /\ UNCHANGED <<heap, stamp, boot, now, reader, IMAGE_CACHE, proxy>>

\* line 97: time.sleep(600) returns, the loop starts over
RefreshWake ==
    /\ thread.pc = "sleep"
    /\ now >= thread.until
    /\ thread' = [thread EXCEPT !.pc = "load"]
    /\ UNCHANGED <<DATA_CACHE, heap, stamp, boot, now, reader, IMAGE_CACHE, proxy>>

\* d seconds pass, up to the clock value limit
Tick(d, limit) ==
    /\ now + d <= limit
    /\ now' = now + d
    /\ UNCHANGED <<DATA_CACHE, heap, stamp, boot, thread, reader, IMAGE_CACHE, proxy>>

(***************************************************************************)
(* get_student                                                             *)
(***************************************************************************)
HasColumn(df, name) == name \in Range(df.columns)

\* the position of the column a name selects
ColIndex(df, name) == CHOOSE i \in 1..Len(df.columns) : df.columns[i] = name

\* .astype(str).str.strip().str.replace(" ", "", regex=False) on one value
NormalizeId(v) == RemoveSpaces(Strip(v))

\* line 172: the DataFrame with its "Scholar ID" column assigned
normalize_column(df) ==
    LET c == ColIndex(df, ScholarID)
    IN  [df EXCEPT !.rows = [r \in 1..Len(df.rows) |->
                                [df.rows[r] EXCEPT ![c] = NormalizeId(@)]]]

\* line 173
short_id(scholar_id) == RemoveSpaces(SplitFirst(Strip(scholar_id)))

\* Selected comparing for equality with the whole normalised query
Selected_Exact(df, r, scholar_id) ==
    Lower(df.rows[r][ColIndex(df, ScholarID)]) = Lower(NormalizeId(scholar_id))

\* line 174: whether the mask selects row r
Selected(df, r, scholar_id) ==
    ContainsNoCase(df.rows[r][ColIndex(df, ScholarID)], short_id(scholar_id))

\* line 174: the positions of the selected rows, in row order
filter_rows(df, scholar_id) ==
    LET Keep(r) == Selected(df, r, scholar_id)
    IN  SelectSeq([r \in 1..Len(df.rows) |-> r], Keep)

\* line 179: row.iloc[0].to_dict() for the row at position r of df
to_dict(df, r) ==
    [c \in Range(df.columns) |-> df.rows[r][ColIndex(df, c)]]

\* null_empty leaving the empty strings in
null_empty_Keeps(data) == [k \in DOMAIN data |-> data[k]]

\* lines 182-184
null_empty(data) == [k \in DOMAIN data |-> IF data[k] = <<>> THEN None ELSE data[k]]

\* LookupStart answering "not found" while the cache is empty
LookupStart_NotFound(r, q) ==
    /\ boot = "serving"
    /\ reader[r].pc = "idle"
    /\ reader' = [reader EXCEPT ![r] =
           IF DATA_CACHE.df = 0
           THEN [IdleReader EXCEPT !.scholar_id = q, !.result = HTTPException(404, "not found")]
           ELSE [IdleReader EXCEPT !.scholar_id = q, !.pc = "l167"]]
    /\ UNCHANGED <<DATA_CACHE, heap, stamp, boot, thread, now, IMAGE_CACHE, proxy>>

\* lines 161-164: a request arrives and the handler tests DATA_CACHE["df"]
LookupStart(r, q) ==
    /\ boot = "serving"
    /\ reader[r].pc = "idle"
    /\ reader' = [reader EXCEPT ![r] =
           IF DATA_CACHE.df = 0
           THEN [IdleReader EXCEPT !.scholar_id = q,
                    !.result = HTTPException(503, "Data cache not ready. Try again shortly.")]
           ELSE [IdleReader EXCEPT !.scholar_id = q, !.pc = "l167"]]
    /\ UNCHANGED <<DATA_CACHE, heap, stamp, boot, thread, now, IMAGE_CACHE, proxy>>

\* LookupReadDf answering "not found" when the column is missing
LookupReadDf_NotFound(r) ==
    /\ reader[r].pc = "l167"
    /\ reader' = [reader EXCEPT ![r] =
           IF HasColumn(heap[DATA_CACHE.df], ScholarID)
           THEN [@ EXCEPT !.df = DATA_CACHE.df, !.pc = "l172"]
           ELSE [@ EXCEPT !.pc = "idle", !.result = HTTPException(404, "not found")]]
    /\ UNCHANGED <<DATA_CACHE, heap, stamp, boot, thread, now, IMAGE_CACHE, proxy>>

\* lines 167-169
LookupReadDf(r) ==
    /\ reader[r].pc = "l167"
    /\ reader' = [reader EXCEPT ![r] =
           IF HasColumn(heap[DATA_CACHE.df], ScholarID)
           THEN [@ EXCEPT !.df = DATA_CACHE.df, !.pc = "l172"]
           ELSE [@ EXCEPT !.pc = "idle",
                    !.result = HTTPException(500, "Column 'Scholar ID' not found in Google Sheet")]]
    /\ UNCHANGED <<DATA_CACHE, heap, stamp, boot, thread, now, IMAGE_CACHE, proxy>>

\* line 172: the column is assigned in the DataFrame the cache holds.  The
\* values assigned are NormalizeId of the values read, and NormalizeId leaves a
\* normalised value as it is, so reading and assigning are one step here: a
\* handler that assigns between the two stores the same values.
LookupNormalize(r) ==
    /\ reader[r].pc = "l172"
    /\ heap' = [heap EXCEPT ![reader[r].df] = normalize_column(@)]
    /\ reader' = [reader EXCEPT ![r].pc = "l174"]
    /\ UNCHANGED <<DATA_CACHE, stamp, boot, thread, now, IMAGE_CACHE, proxy>>

\* LookupFilter taking the row it returns out of the DataFrame
LookupFilter_Consumes(r) ==
    /\ reader[r].pc = "l174"
    /\ LET df == heap[reader[r].df]
           row == filter_rows(df, reader[r].scholar_id)
       IN  /\ reader' = [reader EXCEPT ![r] =
                  IF row = <<>>
                  THEN [@ EXCEPT !.pc = "idle", !.df = 0,
                           !.result = HTTPException(404, "not found")]
                  ELSE [@ EXCEPT !.pc = "l187", !.data = null_empty(to_dict(df, row[1]))]]
           /\ heap' = IF row = <<>>
                      THEN Reclaim(heap, DATA_CACHE, thread, reader')
                      ELSE [heap EXCEPT ![reader[r].df].rows =
                               SelectSeq(@, LAMBDA x : x # df.rows[row[1]])]
    /\ stamp' = ReclaimStamp(stamp, DATA_CACHE, thread, reader')
    /\ UNCHANGED <<DATA_CACHE, boot, thread, now, IMAGE_CACHE, proxy>>

\* lines 173-184: row is a copy, so what follows reads the handler's own data
LookupFilter(r) ==
    /\ reader[r].pc = "l174"
    /\ LET df == heap[reader[r].df]
           row == filter_rows(df, reader[r].scholar_id)
       IN  reader' = [reader EXCEPT ![r] =
               IF row = <<>>
               THEN [@ EXCEPT !.pc = "idle", !.df = 0,
                        !.result = HTTPException(404, "not found")]
               ELSE [@ EXCEPT !.pc = "l187", !.data = null_empty(to_dict(df, row[1]))]]
    /\ heap' = Reclaim(heap, DATA_CACHE, thread, reader')
    /\ stamp' = ReclaimStamp(stamp, DATA_CACHE, thread, reader')
    /\ UNCHANGED <<DATA_CACHE, boot, thread, now, IMAGE_CACHE, proxy>>

\* lines 186-189
LookupReturn(r) ==
    /\ reader[r].pc = "l187"
    /\ reader' = [reader EXCEPT ![r].pc = "idle",
                                ![r].df = 0,
                                ![r].data = <<>>,
                                ![r].result = [status |-> 200, detail |-> "",
                                               last_updated |-> DATA_CACHE.last_updated,
                                               data |-> reader[r].data]]
    /\ heap' = Reclaim(heap, DATA_CACHE, thread, reader')
    /\ stamp' = ReclaimStamp(stamp, DATA_CACHE, thread, reader')
    /\ UNCHANGED <<DATA_CACHE, boot, thread, now, IMAGE_CACHE, proxy>>

(***************************************************************************)
(* compress_image and image_proxy                                          *)
(***************************************************************************)
CACHE_TTL == 60 * 60 * 4

\* max_size=(350, 350)
MAX_SIDE == 350

\* img.save(output, format="JPEG", quality=80)
JPEG_QUALITY == 80

\* the bodies the origin can send: two images and a page that is no image
PngRGB == [image |-> TRUE, mode |-> "RGB", format |-> "PNG", width |-> 700, height |-> 500, quality |-> 0]

PngRGBA == [image |-> TRUE, mode |-> "RGBA", format |-> "PNG", width |-> 200, height |-> 100, quality |-> 0]

HtmlPage == [image |-> FALSE, mode |-> "", format |-> "", width |-> 0, height |-> 0, quality |-> 0]

NoBytes == [image |-> FALSE, mode |-> "", format |-> "none", width |-> 0, height |-> 0, quality |-> 0]

\* Image.open, thumbnail and save succeed: the bytes are an image, and of a mode
\* the JPEG writer accepts
CanCompress(data) == data.image /\ data.mode \in {"RGB", "L", "CMYK"}

\* Image.thumbnail(max_size): no larger than max_size, the aspect ratio kept
thumbnail(data) ==
    IF data.width <= MAX_SIDE /\ data.height <= MAX_SIDE
    THEN data
    ELSE IF data.width >= data.height
         THEN [data EXCEPT !.width = MAX_SIDE,
                           !.height = (MAX_SIDE * data.height) \div data.width]
         ELSE [data EXCEPT !.height = MAX_SIDE,
                           !.width = (MAX_SIDE * data.width) \div data.height]

\* compress_image with the fetched bytes lost when they cannot be compressed
compress_image_Drops(data) ==
    IF CanCompress(data)
    THEN [thumbnail(data) EXCEPT !.format = "JPEG", !.quality = JPEG_QUALITY]
    ELSE NoBytes

compress_image(data) ==
    IF CanCompress(data)
    THEN [thumbnail(data) EXCEPT !.format = "JPEG", !.quality = JPEG_QUALITY]
    ELSE data

\* what the origin answers: status, body and the content-type header ("" when
\* the header is absent)
Responses ==
    { [status_code |-> 200, content |-> PngRGB, content_type |-> "image/png"],
      [status_code |-> 200, content |-> PngRGBA, content_type |-> "image/png"],
      [status_code |-> 200, content |-> HtmlPage, content_type |-> ""],
      [status_code |-> 404, content |-> HtmlPage, content_type |-> "text/html"] }

NoResp == [status_code |-> 0, content |-> NoBytes, content_type |-> ""]

\* the file ids requested and the calls of image_proxy that can be in progress
FileIds == {"f1", "f2"}

Calls == {"g1", "g2"}

NoResponse == [status |-> 0, content |-> NoBytes, media_type |-> "", detail |-> ""]

\* Response(content=..., media_type=..., headers={"Cache-Control": ...})
Response(data, content_type) ==
    [status |-> 200, content |-> data, media_type |-> content_type, detail |-> ""]

\* line 152: HTTPException(status_code=500, detail=str(e))
ProxyError(text) ==
    [status |-> 500, content |-> NoBytes, media_type |-> "", detail |-> text]

IdleCall == [pc |-> "idle", file_id |-> "", resp |-> NoResp, fetches |-> 0, result |-> NoResponse]

\* d[k] = v on a dict
DictSet(d, k, v) == [x \in DOMAIN d \cup {k} |-> IF x = k THEN v ELSE d[x]]

\* Fresh still true of an entry whose age is exactly the TTL
Fresh_Inclusive(entry, t) == t - entry.timestamp <= CACHE_TTL

\* line 120: the entry is served
Fresh(entry, t) == t - entry.timestamp < CACHE_TTL

\* lines 116-130: the entry is served, or the request to the origin is sent
ProxyStart(g, f) ==
    /\ proxy[g].pc = "idle"
    /\ proxy' = [proxy EXCEPT ![g] =
           IF f \in DOMAIN IMAGE_CACHE /\ Fresh(IMAGE_CACHE[f], now)
           THEN [IdleCall EXCEPT !.file_id = f,
                    !.result = Response(IMAGE_CACHE[f].data, IMAGE_CACHE[f].content_type)]
           ELSE [IdleCall EXCEPT !.file_id = f, !.pc = "l130", !.fetches = 1]]
    /\ UNCHANGED <<DATA_CACHE, heap, stamp, boot, thread, now, reader, IMAGE_CACHE>>

\* line 130: the origin's response arrives; closing the client suspends the call
ProxyFetched(g, resp) ==
    /\ proxy[g].pc = "l130"
    /\ proxy' = [proxy EXCEPT ![g].pc = "l132", ![g].resp = resp]
    /\ UNCHANGED <<DATA_CACHE, heap, stamp, boot, thread, now, reader, IMAGE_CACHE>>

\* lines 130, 151-152: the request raises (the 10 s timeout, no connection)
ProxyRaised(g) ==
    /\ proxy[g].pc = "l130"
    /\ proxy' = [proxy EXCEPT ![g].pc = "idle", ![g].result = ProxyError("timeout")]
    /\ UNCHANGED <<DATA_CACHE, heap, stamp, boot, thread, now, reader, IMAGE_CACHE>>

\* ProxyRespond without the test of the status at lines 132-133
ProxyRespond_NoStatusTest(g) ==
    /\ proxy[g].pc = "l132"
    /\ LET resp == proxy[g].resp
           data == compress_image(resp.content)
           content_type == IF resp.content_type = "" THEN "image/jpeg" ELSE resp.content_type
       IN  /\ IMAGE_CACHE' = DictSet(IMAGE_CACHE, proxy[g].file_id,
                    [data |-> data, content_type |-> content_type, timestamp |-> now])
           /\ proxy' = [proxy EXCEPT ![g].pc = "idle", ![g].resp = NoResp,
                                     ![g].result = Response(data, content_type)]
    /\ UNCHANGED <<DATA_CACHE, heap, stamp, boot, thread, now, reader>>

\* ProxyRespond storing the new bytes and time into an entry that exists and
\* leaving its content type as it was
ProxyRespond_KeepsType(g) ==
    /\ proxy[g].pc = "l132"
    /\ LET resp == proxy[g].resp
           f == proxy[g].file_id
           data == compress_image(resp.content)
           content_type == IF resp.content_type = "" THEN "image/jpeg" ELSE resp.content_type
       IN  IF resp.status_code # 200
           THEN /\ IMAGE_CACHE' = IMAGE_CACHE
                /\ proxy' = [proxy EXCEPT ![g].pc = "idle", ![g].resp = NoResp,
                                          ![g].result = ProxyError("Image fetch failed")]
           ELSE /\ IMAGE_CACHE' = DictSet(IMAGE_CACHE, f,
                         [data |-> data,
                          content_type |-> IF f \in DOMAIN IMAGE_CACHE
                                           THEN IMAGE_CACHE[f].content_type
                                           ELSE content_type,
                          timestamp |-> now])
                /\ proxy' = [proxy EXCEPT ![g].pc = "idle", ![g].resp = NoResp,
                                          ![g].result = Response(data, content_type)]
    /\ UNCHANGED <<DATA_CACHE, heap, stamp, boot, thread, now, reader>>

\* lines 132-152
ProxyRespond(g) ==
    /\ proxy[g].pc = "l132"
    /\ LET resp == proxy[g].resp
           data == compress_image(resp.content)
           content_type == IF resp.content_type = "" THEN "image/jpeg" ELSE resp.content_type
       IN  IF resp.status_code # 200
           THEN /\ IMAGE_CACHE' = IMAGE_CACHE
                /\ proxy' = [proxy EXCEPT ![g].pc = "idle", ![g].resp = NoResp,
                                          ![g].result = ProxyError("Image fetch failed")]
           ELSE /\ IMAGE_CACHE' = DictSet(IMAGE_CACHE, proxy[g].file_id,
                         [data |-> data, content_type |-> content_type, timestamp |-> now])
                /\ proxy' = [proxy EXCEPT ![g].pc = "idle", ![g].resp = NoResp,
                                          ![g].result = Response(data, content_type)]
    /\ UNCHANGED <<DATA_CACHE, heap, stamp, boot, thread, now, reader>>

(***************************************************************************)
(* The dataset cache with its readers                                      *)
(***************************************************************************)
Init ==
    /\ DATA_CACHE = [df |-> 0, last_updated |-> None]
    /\ heap = <<>>
    /\ stamp = <<>>
    /\ boot = "startup"
    /\ thread = [pc |-> "off", df |-> 0, until |-> 0]
    /\ now = 0
    /\ reader = [r \in Readers |-> IdleReader]
    /\ IMAGE_CACHE = <<>>
    /\ proxy = [g \in Calls |-> IdleCall]

Next ==
    \/ on_startup
    \/ \E sheet \in Sheets : RefreshLoaded(sheet)
    \/ RefreshFailed
    \/ RefreshStoreDf
    \/ RefreshStoreTime
    \/ RefreshWake
    \/ \E d \in TickSteps : Tick(d, MaxTime)
    \/ \E r \in Readers, q \in Queries : LookupStart(r, q)
    \/ \E r \in Readers : LookupReadDf(r)
    \/ \E r \in Readers : LookupNormalize(r)
    \/ \E r \in Readers : LookupFilter(r)
    \/ \E r \in Readers : LookupReturn(r)

Spec == Init /\ [][Next]_vars

(***************************************************************************)
(* Properties of the dataset cache                                         *)
(***************************************************************************)
\* the DataFrames load_data can build, as built or with the identifier column
\* assigned by line 172
Snapshots ==
    {load_data(sheet) : sheet \in Sheets} \cup
    {normalize_column(load_data(sheet)) :
        sheet \in {x \in Sheets : HasColumn(load_data(x), ScholarID)}}

\* C1: the DataFrame the cache publishes, and the DataFrame a lookup holds from
\* line 167 until it has copied its row at line 174, is at every moment one whole
\* snapshot built by one load_data call, and one that has been published: never
\* rows of two snapshots, never the frame the refresh thread has not stored yet.
C1_ReadersSeeWholeSnapshot ==
    /\ DATA_CACHE.df # 0 => heap[DATA_CACHE.df] \in Snapshots
    /\ \A r \in Readers :
          reader[r].pc \in {"l172", "l174"} =>
              /\ heap[reader[r].df] \in Snapshots
              /\ ~(thread.pc = "l92" /\ reader[r].df = thread.df)

\* a lookup is between lines 167 and 174 while the cache already publishes the
\* next snapshot
C1_Witness ==
    \E r \in Readers :
        /\ reader[r].pc = "l174"
        /\ reader[r].df # DATA_CACHE.df
        /\ heap[reader[r].df] # heap[DATA_CACHE.df]

\* C2: every successful lookup returns a last_updated that is present and is the
\* value recorded for the DataFrame its row was read from.
C2_TimestampOfSameSnapshot ==
    [][\A r \in Readers :
          (reader[r].pc = "l187" /\ reader'[r].pc = "idle") =>
              /\ reader'[r].result.last_updated # None
              /\ reader'[r].result.last_updated = stamp[reader[r].df]]_vars

\* C3: while a load is in flight nothing changes what the cache publishes, and
\* the step in which the load fails changes neither the cache nor any DataFrame.
C3_FailedRefreshKeepsSnapshot ==
    [][/\ (thread.pc = "load" /\ thread'.pc \in {"load", "sleep"}) =>
              DATA_CACHE' = DATA_CACHE
       /\ (thread.pc = "load" /\ thread'.pc = "sleep") => heap' = heap
       /\ (boot = "startup" /\ heap' = heap) => DATA_CACHE' = DATA_CACHE]_vars

\* the refresh thread has only failed, the snapshot of the startup load is still
\* published and a lookup has matched a row in it
C3_Witness ==
    /\ thread.pc = "sleep"
    /\ thread.df = 0
    /\ DATA_CACHE.df = 1
    /\ DATA_CACHE.last_updated = stamp[1]
    /\ \E r \in Readers : reader[r].pc = "l187" /\ reader[r].df = 1
    /\ \E r \in Readers : reader[r].result.status = 200

\* C4: no step changes the content of the published DataFrame.
C4_PublishedSnapshotNeverMutated ==
    [][DATA_CACHE.df # 0 => heap'[DATA_CACHE.df] = heap[DATA_CACHE.df]]_vars

\* C10: a lookup that arrives while no snapshot is published ends at once with
\* 503, and no lookup has answered 200 or 404 while the cache is empty.
C10_NotReadyBeforeFirstSnapshot ==
    /\ [](\A r \in Readers :
             /\ reader[r].result.status \in {200, 404} => DATA_CACHE.df # 0
             /\ reader[r].pc # "idle" => DATA_CACHE.df # 0)
    /\ [][\A r \in Readers :
             (DATA_CACHE.df = 0 /\ reader'[r] # reader[r]) =>
                 /\ reader'[r].pc = "idle"
                 /\ reader'[r].result.status = 503]_vars

\* the startup load has failed and a lookup was answered 503
C10_Witness ==
    /\ boot = "serving"
    /\ DATA_CACHE.df = 0
    /\ \E r \in Readers : reader[r].result.status = 503

(***************************************************************************)
(* The record matcher on every small identifier and query                  *)
(***************************************************************************)
\* the longest identifier and query drawn
MaxLen == 2

MatchAlphabet == {" ", "/", "a", "A"}

Strings(n) == UNION {[1..k -> MatchAlphabet] : k \in 0..n}

\* two-row sheets: every identifier in the first row, the shorter ones in the second
MatchSheets ==
    {[header |-> <<ScholarID, <<"N","a","m","e">> >>,
      rows |-> << <<id1, <<"x">> >>, <<id2, <<"y">> >> >>] :
        id1 \in Strings(MaxLen), id2 \in Strings(MaxLen - 1)}

MatchQueries == Strings(MaxLen)

\* the startup load and one handler, while the refresh thread's first fetch is
\* still in flight
NextMatch ==
    \/ Startup(MatchSheets)
    \/ \E q \in MatchQueries : LookupStart("r1", q)
    \/ LookupReadDf("r1")
    \/ LookupNormalize("r1")
    \/ LookupFilter("r1")
    \/ LookupReturn("r1")

SpecMatch == Init /\ [][NextMatch]_vars

\* the claim's matching condition on a record's identifier and a raw query:
\* equal to the normalised query, or containing its part before the first "/"
ClaimNormalized(s) == RemoveSpaces(Strip(s))

ClaimShortForm(q) == SplitFirst(ClaimNormalized(q))

ClaimMatches(id, q) ==
    \/ Lower(ClaimNormalized(id)) = Lower(ClaimNormalized(q))
    \/ Contains(Lower(ClaimNormalized(id)), Lower(ClaimShortForm(q)))

ClaimMatching(df, q) ==
    {k \in 1..Len(df.rows) : ClaimMatches(df.rows[k][ColIndex(df, ScholarID)], q)}

ClaimFirst(df, q) ==
    CHOOSE k \in ClaimMatching(df, q) : \A j \in ClaimMatching(df, q) : k <= j

\* C5: the step of lines 173-184 ends with 404 exactly when no record of the
\* lookup's snapshot satisfies the matching condition, and otherwise keeps the
\* first such record in row order, which the lookup then returns with 200.
C5_FirstMatchOrNotFound ==
    [][\A r \in Readers :
          /\ (reader[r].pc = "l174" /\ reader'[r].pc # "l174") =>
                 LET df == heap[reader[r].df]
                     q == reader[r].scholar_id
                 IN  IF ClaimMatching(df, q) = {}
                     THEN reader'[r].pc = "idle" /\ reader'[r].result.status = 404
                     ELSE /\ reader'[r].pc = "l187"
                          /\ reader'[r].data = null_empty(to_dict(df, ClaimFirst(df, q)))
          /\ (reader[r].pc = "l187" /\ reader'[r].pc = "idle") =>
                 /\ reader'[r].result.status = 200
                 /\ reader'[r].result.data = reader[r].data]_vars

\* a lookup holds the second record: the first does not match, and the second
\* matches by containing the short form without being equal to the query
C5_Witness ==
    /\ reader["r1"].pc = "l187"
    /\ LET df == heap[reader["r1"].df]
           q == reader["r1"].scholar_id
       IN  /\ ClaimMatching(df, q) = {2}
           /\ reader["r1"].data[ScholarID] # ClaimNormalized(q)
           /\ reader["r1"].data = null_empty(to_dict(df, 2))

\* C20: when the short form of the query is empty and the DataFrame has a row,
\* the mask of line 174 selects every row, the step of lines 173-184 keeps the
\* first row and does not end with 404, and the lookup returns it with 200.
C20_EmptyShortFormFirstRow ==
    [][\A r \in Readers :
          ClaimShortForm(reader[r].scholar_id) = <<>> =>
              /\ ( /\ reader[r].pc = "l174"
                   /\ reader'[r].pc # "l174"
                   /\ Len(heap[reader[r].df].rows) >= 1 ) =>
                     LET df == heap[reader[r].df]
                     IN  /\ \A k \in 1..Len(df.rows) : Selected(df, k, reader[r].scholar_id)
                         /\ reader'[r].pc = "l187"
                         /\ reader'[r].data = null_empty(to_dict(df, 1))
              /\ (reader[r].pc = "l187" /\ reader'[r].pc = "idle") =>
                     /\ reader'[r].result.status = 200
                     /\ reader'[r].result.data = reader[r].data]_vars

\* a lookup of "/a" holds the first record, whose identifier is "/"
C20_Witness ==
    /\ reader["r1"].pc = "l187"
    /\ reader["r1"].scholar_id = <<"/", "a">>
    /\ heap[reader["r1"].df].rows[1][1] = <<"/">>
    /\ reader["r1"].data = null_empty(to_dict(heap[reader["r1"].df], 1))

(***************************************************************************)
(* The asset proxy cache                                                   *)
(***************************************************************************)
\* the clock stops after MaxTtls times the TTL
MaxTtls == 2

NextAsset ==
    \/ \E g \in Calls, f \in FileIds : ProxyStart(g, f)
    \/ \E g \in Calls, resp \in Responses : ProxyFetched(g, resp)
    \/ \E g \in Calls : ProxyRaised(g)
    \/ \E g \in Calls : ProxyRespond(g)
    \/ \E d \in {CACHE_TTL \div 2} : Tick(d, MaxTtls * CACHE_TTL)

SpecAsset == Init /\ [][NextAsset]_vars

\* C6: a call that starts when an entry for its file id exists with an age below
\* the TTL answers at once with the stored payload and content type and sends
\* nothing to the origin; a call that starts with no entry, or with an entry whose
\* age has reached the TTL, sends one request to the origin and answers nothing
\* from the cache; a call in progress sends no further request.
C6_TtlDecidesFetch ==
    [][\A g \in Calls :
          /\ (proxy[g].pc = "idle" /\ proxy'[g] # proxy[g]) =>
                 LET f == proxy'[g].file_id
                 IN  IF f \in DOMAIN IMAGE_CACHE
                        /\ now - IMAGE_CACHE[f].timestamp < CACHE_TTL
                     THEN /\ proxy'[g].pc = "idle"
                          /\ proxy'[g].fetches = 0
                          /\ proxy'[g].result =
                                 Response(IMAGE_CACHE[f].data, IMAGE_CACHE[f].content_type)
                     ELSE /\ proxy'[g].pc = "l130"
                          /\ proxy'[g].fetches = 1
                          /\ proxy'[g].result = NoResponse
          /\ proxy[g].pc # "idle" => proxy'[g].fetches = 1]_vars

\* a call has sent its request to the origin although an entry exists, because
\* the entry's age is exactly the TTL
C6_Witness ==
    \E g \in Calls :
        /\ proxy[g].pc = "l130"
        /\ proxy[g].fetches = 1
        /\ proxy[g].file_id \in DOMAIN IMAGE_CACHE
        /\ now - IMAGE_CACHE[proxy[g].file_id].timestamp = CACHE_TTL

\* C7: when the origin answered 200 with bytes the transform fails on, the call
\* answers 200 with those bytes and stores them under its file id with the
\* current time; and a call that starts while such an entry is younger than the
\* TTL answers with the stored bytes without a request to the origin.
C7_TransformFallbackIsCached ==
    [][\A g \in Calls :
          /\ ( /\ proxy[g].pc = "l132"
               /\ proxy'[g].pc = "idle"
               /\ proxy[g].resp.status_code = 200
               /\ ~CanCompress(proxy[g].resp.content) ) =>
                 /\ proxy'[g].result.status = 200
                 /\ proxy'[g].result.content = proxy[g].resp.content
                 /\ proxy[g].file_id \in DOMAIN IMAGE_CACHE'
                 /\ IMAGE_CACHE'[proxy[g].file_id].data = proxy[g].resp.content
                 /\ IMAGE_CACHE'[proxy[g].file_id].timestamp = now
          /\ ( /\ proxy[g].pc = "idle"
               /\ proxy'[g] # proxy[g]
               /\ proxy'[g].file_id \in DOMAIN IMAGE_CACHE
               /\ ~CanCompress(IMAGE_CACHE[proxy'[g].file_id].data)
               /\ now - IMAGE_CACHE[proxy'[g].file_id].timestamp < CACHE_TTL ) =>
                 /\ proxy'[g].result.status = 200
                 /\ proxy'[g].result.content = IMAGE_CACHE[proxy'[g].file_id].data
                 /\ proxy'[g].fetches = 0]_vars

\* a call was answered from the cache with bytes that were stored untransformed
C7_Witness ==
    \E g \in Calls :
        /\ proxy[g].pc = "idle"
        /\ proxy[g].fetches = 0
        /\ proxy[g].result.status = 200
        /\ proxy[g].result.content = HtmlPage
        /\ IMAGE_CACHE[proxy[g].file_id].data = HtmlPage

\* C8: when the origin's status is not 200, the call ends with the error, no
\* payload, and the dict is unchanged.
C8_FetchFailureLeavesCache ==
    [][\A g \in Calls :
          ( /\ proxy[g].pc = "l132"
            /\ proxy'[g].pc = "idle"
            /\ proxy[g].resp.status_code # 200 ) =>
              /\ IMAGE_CACHE' = IMAGE_CACHE
              /\ proxy'[g].result = ProxyError("Image fetch failed")]_vars

\* a call has failed for a file id whose expired entry is still in the dict
C8_Witness ==
    \E g \in Calls :
        /\ proxy[g].pc = "idle"
        /\ proxy[g].result = ProxyError("Image fetch failed")
        /\ proxy[g].file_id \in DOMAIN IMAGE_CACHE
        /\ now - IMAGE_CACHE[proxy[g].file_id].timestamp >= CACHE_TTL
        /\ \A h \in Calls : proxy[h].pc = "idle"

(***************************************************************************)
(* The reference resolver on every small link                              *)
(***************************************************************************)
\* the longest link drawn
MaxUrlLen == 4

UrlAlphabet == {"/", "d", "i", "=", "X", "?"}

Links == UNION {[1..k -> UrlAlphabet] : k \in 0..MaxUrlLen}

Photograph == <<"S","t","u","d","e","n","t","'","s"," ","P","h","o","t","o","g","r","a","p","h">>

LinkText == <<"L","i","n","k">>

\* one-row sheets whose "Link" cell repeats the text of the photograph cell
ResolveSheets ==
    {[header |-> <<ScholarID, LinkText, Photograph>>,
      rows |-> << << <<"a">>, link, link >> >>] : link \in Links}

NextResolve ==
    \/ Startup(ResolveSheets)
    \/ LookupStart("r1", <<"a">>)
    \/ LookupReadDf("r1")
    \/ LookupNormalize("r1")
    \/ LookupFilter("r1")
    \/ LookupReturn("r1")

SpecResolve == Init /\ [][NextResolve]_vars

\* the link has the /d/<token> or the id=<token> pattern
ClaimHasPattern(link) ==
    \E i \in 1..Len(link) :
        \E lit \in { <<"/","d","/">>, <<"i","d","=">> } :
            /\ i + Len(lit) <= Len(link)
            /\ SubSeq(link, i, i + Len(lit) - 1) = lit
            /\ link[i + Len(lit)] \in TokenChars

\* C9: in every record returned, a photograph field whose link is non-empty is
\* the proxy URL of the link's reference when the link has one of the two
\* patterns, and is the link itself when it has neither.
C9_FieldRewrittenOrKept ==
    \A r \in Readers :
        (reader[r].result.status = 200 /\ LinkText \in DOMAIN reader[r].result.data) =>
            LET link == reader[r].result.data[LinkText]
                seen == reader[r].result.data[Photograph]
            IN  link # None =>
                    IF ClaimHasPattern(link)
                    THEN seen = ProxyBase \o extract_file_id(link)
                    ELSE seen = link

\* what does hold of the links that have a pattern: they become proxy URLs
PatternLinksRewritten ==
    \A r \in Readers :
        (reader[r].result.status = 200 /\ LinkText \in DOMAIN reader[r].result.data) =>
            LET link == reader[r].result.data[LinkText]
                seen == reader[r].result.data[Photograph]
            IN  (link # None /\ ClaimHasPattern(link)) =>
                    seen = ProxyBase \o extract_file_id(link)

(***************************************************************************)
(* Further properties of the dataset cache                                 *)
(***************************************************************************)
ColumnMissing == HTTPException(500, "Column 'Scholar ID' not found in Google Sheet")

\* C11: a lookup that reads the published DataFrame at line 167 while it lacks
\* the "Scholar ID" column ends at once with the 500 "column not found" error,
\* whatever its query, and the step touches neither the refresh thread nor the
\* cache; no lookup goes on to filter, to answer 404 or to return a record from
\* a DataFrame without the column.
C11_ColumnMissingFailsEveryLookup ==
    /\ [](\A r \in Readers :
             reader[r].pc \in {"l172", "l174", "l187"} =>
                 HasColumn(heap[reader[r].df], ScholarID))
    /\ [][\A r \in Readers :
             ( /\ reader[r].pc = "l167"
               /\ reader'[r] # reader[r]
               /\ ~HasColumn(heap[DATA_CACHE.df], ScholarID) ) =>
                 /\ reader'[r].pc = "idle"
                 /\ reader'[r].result = ColumnMissing
                 /\ thread' = thread
                 /\ DATA_CACHE' = DATA_CACHE]_vars

\* the startup load published a sheet without the column, a lookup failed with
\* the "column not found" error, and the refresh thread has since published its
\* first DataFrame, which has the column
C11_Witness ==
    /\ DATA_CACHE.df = 2
    /\ HasColumn(heap[2], ScholarID)
    /\ thread.pc = "sleep"
    /\ \E r \in Readers : reader[r].result = ColumnMissing

\* what lines 174-189 answer for query q on DataFrame df and timestamp t
Answer(df, t, q) ==
    LET row == filter_rows(df, q)
    IN  IF row = <<>>
        THEN HTTPException(404, "not found")
        ELSE [status |-> 200, detail |-> "", last_updated |-> t,
              data |-> null_empty(to_dict(df, row[1]))]

\* what get_student(q) answers when it runs from line 163 to line 189 on the
\* cache value cache, with h the DataFrames
OutcomeOf(cache, h, q) ==
    IF cache.df = 0
    THEN HTTPException(503, "Data cache not ready. Try again shortly.")
    ELSE IF ~HasColumn(h[cache.df], ScholarID)
         THEN ColumnMissing
         ELSE Answer(normalize_column(h[cache.df]), cache.last_updated, q)

\* what get_student(q) answers on the cache as it is now
Outcome(q) == OutcomeOf(DATA_CACHE, heap, q)

\* C12: what a lookup of a query answers depends on the cache alone.  No step
\* that leaves DATA_CACHE as it is and changes a DataFrame (line 172 of any
\* lookup) changes the answer the cache gives to any query, and every lookup
\* that ends while the cache still holds the DataFrame it read ends with that
\* answer; so two lookups of one query with no write to DATA_CACHE between
\* them end with the same record and last_updated, or with the same error.
C12_SameCacheSameResult ==
    [][/\ (DATA_CACHE' = DATA_CACHE /\ heap' # heap) =>
              \A q \in Queries : OutcomeOf(DATA_CACHE', heap', q) = Outcome(q)
       /\ \A r \in Readers :
              ( /\ reader'[r].pc = "idle"
                /\ reader'[r] # reader[r]
                /\ reader[r].pc \in {"l174", "l187"} => reader[r].df = DATA_CACHE.df ) =>
                  reader'[r].result = Outcome(reader'[r].scholar_id)]_vars

\* nothing was published since the startup load; two lookups of one query have
\* ended with the same record, and the identifier column of the published
\* DataFrame is no longer as load_data built it
C12_Witness ==
    /\ DATA_CACHE.df = 1
    /\ thread.pc = "load"
    /\ heap[1] = normalize_column(load_data(SheetA))
    /\ heap[1] # load_data(SheetA)
    /\ reader["r1"].pc = "idle"
    /\ reader["r2"].pc = "idle"
    /\ reader["r1"].scholar_id = reader["r2"].scholar_id
    /\ reader["r1"].result.status = 200
    /\ reader["r1"].result = reader["r2"].result

\* C13: no field of a 200 answer is the empty string, last_updated included.
\* The record a lookup keeps at lines 179-184 has the columns of the DataFrame it
\* was copied from and, for one of its rows, None where the row holds the empty
\* string and the row's value everywhere else; lines 186-189 return that record
\* as it is.
C13_EmptyReportedAsNull ==
    /\ [](\A r \in Readers :
             reader[r].result.status = 200 =>
                 /\ reader[r].result.last_updated # <<>>
                 /\ \A c \in DOMAIN reader[r].result.data :
                        reader[r].result.data[c] # <<>>)
    /\ [][\A r \in Readers :
             /\ (reader[r].pc = "l174" /\ reader'[r].pc = "l187") =>
                    LET df == heap[reader[r].df]
                    IN  /\ DOMAIN reader'[r].data = Range(df.columns)
                        /\ \E k \in 1..Len(df.rows) :
                               \A c \in Range(df.columns) :
                                   LET v == df.rows[k][ColIndex(df, c)]
                                   IN  reader'[r].data[c] = IF v = <<>> THEN None ELSE v
             /\ (reader[r].pc = "l187" /\ reader'[r].pc = "idle") =>
                    /\ reader'[r].result.status = 200
                    /\ reader'[r].result.data = reader[r].data]_vars

\* a lookup has returned a record whose "Name" cell is empty in the sheet: the
\* field is None and the identifier field has its value
C13_Witness ==
    \E r \in Readers :
        /\ reader[r].pc = "idle"
        /\ reader[r].result.status = 200
        /\ reader[r].result.data[<<"N","a","m","e">>] = None
        /\ reader[r].result.data[ScholarID] = <<"9">>

\* C19: no step takes the DataFrame out of the cache once one is stored; a
\* lookup that is past line 163, or has ended with an answer other than 503, is
\* evidence that one is stored; and while one is stored no step of a lookup
\* ends it with 503.
C19_ReadinessMonotone ==
    /\ [][DATA_CACHE.df # 0 => DATA_CACHE'.df # 0]_vars
    /\ [](\A r \in Readers :
             (reader[r].pc # "idle" \/ reader[r].result.status \in {200, 404, 500}) =>
                 DATA_CACHE.df # 0)
    /\ [][\A r \in Readers :
             (DATA_CACHE.df # 0 /\ reader'[r] # reader[r]) =>
                 reader'[r].result.status # 503]_vars

\* the startup load published, both attempts of the refresh thread have failed,
\* a lookup has answered 200 and another is past the test of line 163
C19_Witness ==
    /\ DATA_CACHE.df = 1
    /\ now = REFRESH_SLEEP
    /\ thread.pc = "sleep"
    /\ thread.until = 2 * REFRESH_SLEEP
    /\ \E r \in Readers : reader[r].result.status = 200
    /\ \E r \in Readers : reader[r].pc = "l172"

(***************************************************************************)
(* The refresh loop under fair scheduling                                  *)
(***************************************************************************)
\* load_data of the refresh thread returns or raises
RefreshAttemptEnds == (\E sheet \in Sheets : RefreshLoaded(sheet)) \/ RefreshFailed

ClockAdvances == \E d \in TickSteps : Tick(d, MaxTime)

\* the startup, the refresh thread, the clock and the requests of one client
NextLoop ==
    \/ on_startup
    \/ RefreshAttemptEnds
    \/ RefreshStoreDf
    \/ RefreshStoreTime
    \/ RefreshWake
    \/ ClockAdvances
    \/ \E q \in Queries : LookupStart("r1", q)
    \/ LookupReadDf("r1")
    \/ LookupNormalize("r1")
    \/ LookupFilter("r1")
    \/ LookupReturn("r1")

\* the host runs on_startup, the refresh thread is scheduled whenever it can
\* take a step, a fetch that was started ends, and time passes up to MaxTime;
\* requests may or may not come
SpecLoop ==
    /\ Init
    /\ [][NextLoop]_vars
    /\ WF_vars(on_startup)
    /\ WF_vars(RefreshAttemptEnds)
    /\ WF_vars(RefreshStoreDf)
    /\ WF_vars(RefreshStoreTime)
    /\ WF_vars(RefreshWake)
    /\ WF_vars(ClockAdvances)

\* the DataFrames a run can build: the startup load's and one per attempt
Frames == 1..(MaxSleeps + 2)

\* C14: once started, the refresh thread is always inside its loop; an attempt
\* that ends, by returning or by raising, is followed by the sleep of one
\* interval; while the clock can reach the end of a sleep, the sleep is followed
\* by the next attempt; and the DataFrame of an attempt that returned gets
\* published with a timestamp.
C14_RefreshLoopNeverStops ==
    /\ [](boot = "serving" => thread.pc \in {"load", "l92", "l93", "sleep"})
    /\ [][(thread.pc # "sleep" /\ thread'.pc = "sleep") =>
              thread'.until = now + REFRESH_SLEEP]_vars
    /\ (thread.pc = "load") ~> (thread.pc = "sleep")
    /\ (thread.pc = "sleep" /\ thread.until <= MaxTime) ~> (thread.pc = "load")
    /\ \A i \in Frames :
           (thread.pc = "l92" /\ thread.df = i) ~>
               (DATA_CACHE.df = i /\ DATA_CACHE.last_updated # None)

\* the startup load and the thread's first attempt have failed, and the attempt
\* made one interval later has published the first DataFrame
C14_Witness ==
    /\ thread.pc = "sleep"
    /\ now = REFRESH_SLEEP
    /\ DATA_CACHE = [df |-> 1, last_updated |-> strftime(REFRESH_SLEEP)]

(***************************************************************************)
(* The fetches when the origins stop responding                            *)
(***************************************************************************)
\* The sheet's origin answers the startup load and from then on never responds
\* and never closes a connection; the images' origin never responds.
\* pd.read_csv(SHEET_URL, dtype=str) at line 64 is given no timeout, so the
\* refresh thread's load_data neither returns nor raises: the thread has no
\* step.  httpx.AsyncClient(timeout=10.0) at line 128 raises after ten seconds
\* without a byte, which is ProxyRaised.
NextSilent ==
    \/ on_startup
    \/ ClockAdvances
    \/ \E g \in Calls, f \in FileIds : ProxyStart(g, f)
    \/ \E g \in Calls : ProxyRaised(g)

\* the host runs on_startup, the event loop runs the timeout of a request that
\* is waiting, and time passes up to MaxTime
SpecSilent ==
    /\ Init
    /\ [][NextSilent]_vars
    /\ WF_vars(on_startup)
    /\ WF_vars(ClockAdvances)
    /\ \A g \in Calls : WF_vars(ProxyRaised(g))

\* C15: a load of the refresh thread that is in flight ends and the loop goes
\* to its sleep, and an image request that is in flight ends with an error
\* answer, also when the origins never respond.
C15_FetchesBoundedByTimeout ==
    /\ (thread.pc = "load") ~> (thread.pc = "sleep")
    /\ \A g \in Calls :
           (proxy[g].pc = "l130") ~>
               (proxy[g].pc = "idle" /\ proxy[g].result.status = 500)

\* what does hold when the origins never respond: the image request ends with
\* the 500 answer of line 152
AssetFetchEnds ==
    \A g \in Calls :
        (proxy[g].pc = "l130") ~>
            (proxy[g].pc = "idle" /\ proxy[g].result = ProxyError("timeout"))

(***************************************************************************)
(* Refreshes in flight and their timing                                    *)
(***************************************************************************)
\* the startup load has not ended
StartupInFlight == boot = "startup"

\* an iteration of the loop is between its call of load_data and line 93
IterationInFlight == thread.pc \in {"load", "l92", "l93"}

\* C16: the startup load and an iteration of the loop are never in flight
\* together, the thread being started after the startup load has ended; and
\* every write to DATA_CACHE is made by the one refresh that is in flight.
C16_OneRefreshInFlight ==
    /\ [](~(StartupInFlight /\ IterationInFlight))
    /\ [](StartupInFlight => thread.pc = "off")
    /\ [][DATA_CACHE' # DATA_CACHE =>
              \/ StartupInFlight /\ boot' = "serving"
              \/ thread.pc \in {"l92", "l93"} /\ thread'.pc # thread.pc]_vars

\* the startup load has published its DataFrame and an iteration of the loop
\* holds the next one, not yet stored
C16_Witness ==
    /\ boot = "serving"
    /\ DATA_CACHE.df = 1
    /\ thread.pc = "l92"
    /\ thread.df = 2

\* C17: while less than one interval has passed since the process started, at
\* most one load has been made; and every attempt of the loop is made when a
\* sleep of one full interval, begun at the end of the attempt before it, has
\* ended.
C17_AttemptsOneIntervalApart ==
    /\ [](now < REFRESH_SLEEP => Len(heap) <= 1)
    /\ [][(thread.pc = "load" /\ thread'.pc # "load") =>
              /\ thread.until >= REFRESH_SLEEP
              /\ now >= thread.until]_vars

\* what does hold: an attempt that follows a sleep is made when the interval
\* that began at the end of the attempt before it has passed
AttemptsAfterSleepWait ==
    [][(thread.pc = "sleep" /\ thread'.pc = "load") =>
          /\ thread.until >= REFRESH_SLEEP
          /\ now >= thread.until]_vars

(***************************************************************************)
(* Further properties of the asset proxy cache                             *)
(***************************************************************************)
\* the entry lines 139-143 store for a response of the origin at time t
EntryOf(resp, t) ==
    [data |-> compress_image(resp.content),
     content_type |-> IF resp.content_type = "" THEN "image/jpeg" ELSE resp.content_type,
     timestamp |-> t]

\* C18: every entry of the dict is the payload, content type and time stored
\* for one 200 response; no step removes a key; and a step that adds or changes
\* the entry of a key is the end of a call for that key whose response was 200,
\* and stores the entry of that response and of the current time, leaving the
\* entries of the other keys as they were.
C18_EntriesWholeAndKept ==
    /\ [](\A f \in DOMAIN IMAGE_CACHE :
             /\ IMAGE_CACHE[f].timestamp \in 0..now
             /\ \E resp \in Responses :
                    /\ resp.status_code = 200
                    /\ IMAGE_CACHE[f] = EntryOf(resp, IMAGE_CACHE[f].timestamp))
    /\ [][/\ DOMAIN IMAGE_CACHE \subseteq DOMAIN IMAGE_CACHE'
           /\ IMAGE_CACHE' # IMAGE_CACHE =>
                  \E g \in Calls :
                      /\ proxy[g].pc = "l132"
                      /\ proxy'[g].pc = "idle"
                      /\ proxy[g].resp.status_code = 200
                      /\ IMAGE_CACHE' = DictSet(IMAGE_CACHE, proxy[g].file_id,
                                                EntryOf(proxy[g].resp, now))]_vars

\* two calls for one file id have both missed and fetched at the same clock
\* value, were answered with different bytes, and the dict holds the entry of
\* the one that stored last
C18_Witness ==
    /\ now = 0
    /\ proxy["g1"].pc = "idle"
    /\ proxy["g2"].pc = "idle"
    /\ proxy["g1"].file_id = proxy["g2"].file_id
    /\ proxy["g1"].fetches = 1
    /\ proxy["g2"].fetches = 1
    /\ proxy["g1"].result.status = 200
    /\ proxy["g2"].result.status = 200
    /\ proxy["g1"].result.content # proxy["g2"].result.content
    /\ IMAGE_CACHE[proxy["g2"].file_id].data = proxy["g2"].result.content
    /\ IMAGE_CACHE[proxy["g2"].file_id].content_type = proxy["g2"].result.media_type

=============================================================================
